---- MODULE Spec2Model ----
(***************************************************************************)
(* Model of the shinsen_sim_app battle engine (engine.py) and of the way   *)
(* app.py builds and runs battles (make_unit, build_once).                 *)
(*                                                                         *)
(* Numbers.  The engine computes damage and heal amounts with Python       *)
(* floats.  Here every float is an exact rational <<n, d>> (d > 0) and the *)
(* final int(max(1, x)) is the exact floor; float rounding error is not    *)
(* modelled.                                                               *)
(*                                                                         *)
(* Randomness.  random.Random(seed) is a stream of draws that is a         *)
(* function of the seed.  It is modelled twice.  When the seed does not    *)
(* matter (repeat = FALSE) a draw is an arbitrary value of its range, so   *)
(* every stream is covered.  When build_once is going to be called again   *)
(* with the same seed (repeat = TRUE) the generator is a concrete one, a   *)
(* linear congruential generator whose state Random(seed) derives from the *)
(* seed and that every draw advances once.                                 *)
(*   rng.random()      -> k / RandDenom for some k in 0..RandDenom-1       *)
(*   rng.uniform(a, b) -> a + (b - a) * rng.random()                       *)
(*   rng.choice(xs)    -> xs[i] for some i in 1..Len(xs)                   *)
(*   rng.randint(0, 10**9) -> some value in 0..MaxSubSeed                  *)
(***************************************************************************)
EXTENDS Integers, Sequences, FiniteSets, TLC

\* ------------------------------------------------------------------ bounds
MaxTurns   == 2      \* largest max_turns of the small tunings
RandDenom  == 2      \* resolution of rng.random()
MaxN       == 2      \* largest number of trials of simulate_many
MaxSubSeed == 1      \* sub-seeds are drawn from 0..MaxSubSeed
MaxSeed    == 3      \* seeds of the repeated battles are 0..MaxSeed
MaxStatusTurns == 2  \* longest duration given to add_status outside a battle

\* ------------------------------------------------------------ small helpers
EmptyMap == [x \in {} |-> 0]

Min(a, b) == IF a < b THEN a ELSE b
Max(a, b) == IF a > b THEN a ELSE b

\* dict.get(key, default)
Get(d, key, default) == IF key \in DOMAIN d THEN d[key] ELSE default

RECURSIVE SumSeq(_)
SumSeq(s) == IF s = <<>> THEN 0 ELSE Head(s) + SumSeq(Tail(s))

RECURSIVE GCD(_, _)
GCD(a, b) == IF b = 0 THEN a ELSE GCD(b, a % b)

\* exact rationals <<n, d>>, d > 0, kept in lowest terms
Norm(n, d) ==
    LET a == IF n < 0 THEN -n ELSE n
        g == GCD(a, d)
    IN  IF g = 0 THEN <<0, 1>> ELSE <<n \div g, d \div g>>
RInt(i)    == <<i, 1>>
RMul(x, y) == Norm(x[1] * y[1], x[2] * y[2])
RAdd(x, y) == Norm(x[1] * y[2] + y[1] * x[2], x[2] * y[2])
RSub(x, y) == Norm(x[1] * y[2] - y[1] * x[2], x[2] * y[2])
RLess(x, y) == x[1] * y[2] < y[1] * x[2]
RMax0(x)   == IF x[1] < 0 THEN <<0, 1>> ELSE x

\* int(max(1, x))
IntMax1(x) == IF x[1] < x[2] THEN 1 ELSE x[1] \div x[2]

\* the value of rng.random() for raw draw k
Rand(k) == <<k, RandDenom>>
RandRaw == 0 .. (RandDenom - 1)

\* --------------------------------------------------------- static records
\* data/skills.json as seen through build_skill_map
SkillMap ==
    [ slash |-> [skill_id |-> "slash", name |-> "Slash", slot |-> "unique",
                 timing |-> "start", proc |-> <<1, 2>>,
                 effects |-> << [type |-> "physical_damage"] >>],
      fire  |-> [skill_id |-> "fire", name |-> "Fire", slot |-> "unique",
                 timing |-> "after_attack", proc |-> <<1, 2>>,
                 effects |-> << [type |-> "strategy_damage", rate |-> <<1, 1>>],
                                [type |-> "status", name |-> "confusion", turns |-> 2] >>],
      cure  |-> [skill_id |-> "cure", name |-> "Cure", slot |-> "unique",
                 timing |-> "start", proc |-> <<1, 1>>,
                 effects |-> << [type |-> "heal", rate |-> <<1, 1>>,
                                 target |-> "ally_lowest", count |-> 2] >>],
      mend  |-> [skill_id |-> "mend", name |-> "Mend", slot |-> "learn20",
                 timing |-> "after_attack", proc |-> <<1, 2>>,
                 effects |-> << [type |-> "heal"] >>],
      odd   |-> [skill_id |-> "odd", name |-> "Odd", slot |-> "awaken",
                 timing |-> "start", proc |-> <<1, 2>>,
                 effects |-> << [type |-> "buff", rate |-> <<2, 1>>],
                                [type |-> "status", name |-> "poison", turns |-> 3],
                                [type |-> "physical_damage", rate |-> <<1, 2>>] >>] ]

\* data/units.json as seen through build_unit_map
UnitMap ==
    [ guan  |-> [unit_id |-> "guan", name |-> "Guan",
                 base_stats |-> [str |-> 3, int |-> 0, lea |-> 1, spd |-> 3],
                 max_soldiers |-> 3, unique_skill_id |-> "slash"],
      zhuge |-> [unit_id |-> "zhuge", name |-> "Zhuge",
                 base_stats |-> [str |-> 1, int |-> 3, lea |-> 0, spd |-> 2],
                 max_soldiers |-> 3, unique_skill_id |-> "fire"],
      hua   |-> [unit_id |-> "hua", name |-> "Hua",
                 base_stats |-> [str |-> 1, int |-> 2, lea |-> 1, spd |-> 2],
                 max_soldiers |-> 3, unique_skill_id |-> "cure"],
      pawn  |-> [unit_id |-> "pawn", name |-> "Pawn",
                 base_stats |-> [str |-> 2, lea |-> 0, spd |-> 1],
                 max_soldiers |-> 2, unique_skill_id |-> "missing"],
      ex    |-> [unit_id |-> "ex", name |-> "Ex",
                 base_stats |-> [str |-> 100, int |-> 0, lea |-> 0, spd |-> 10],
                 max_soldiers |-> 10000, unique_skill_id |-> ""],
      ex2   |-> [unit_id |-> "ex2", name |-> "Ex2",
                 base_stats |-> [str |-> 100, int |-> 0, lea |-> 0, spd |-> 10],
                 max_soldiers |-> 10000, unique_skill_id |-> ""] ]

\* tuning.json.  The small tunings scale the formulas down to the small units;
\* ExampleTuning is the spec's example (every other key at its default).
SmallTuning(mt, skip, lo, hi) ==
    [ max_turns |-> mt, confusion_skip_action |-> skip,
      random_min |-> lo, random_max |-> hi,
      physical_scale |-> <<1, 1>>, strategy_scale |-> <<1, 1>>,
      heal_scale |-> <<1, 1>> ]
SmallTunings ==
    { SmallTuning(mt, v[1], v[2], v[3]) :
        mt \in -1 .. MaxTurns,
        v \in { << TRUE, <<1, 2>>, <<3, 2>> >>, << FALSE, <<1, 1>>, <<1, 1>> >> } }
ExampleTuning ==
    [ max_turns |-> 8, random_min |-> <<1, 1>>, random_max |-> <<1, 1>> ]

\* a roster slot of app.py: (uid, soldiers, l20_id, awk_id); "" is None
Slot(uid, n, l20, awk) == [uid |-> uid, soldiers |-> n, l20 |-> l20, awk |-> awk]
SmallTeams ==
    { << Slot("guan", 3, "", "") >>,
      << Slot("guan", 9, "", "odd"), Slot("hua", 2, "mend", "") >>,
      << Slot("zhuge", 3, "", ""), Slot("pawn", 1, "", "") >>,
      << Slot("pawn", 0, "", "") >>,
      << Slot("pawn", -1, "", ""), Slot("guan", 1, "", "") >>,
      << Slot("hua", 3, "", "") >>,
      << Slot("zhuge", 2, "mend", "") >> }
ExampleTeams ==
    { << Slot("ex", 10000, "", "") >>, << Slot("ex2", 10000, "", "") >> }

\* --------------------------------------------------------------- app.py
\* to_skill
to_skill(obj) ==
    [ skill_id |-> Get(obj, "skill_id", ""),
      name     |-> Get(obj, "name", ""),
      slot     |-> Get(obj, "slot", "learn20"),
      timing   |-> Get(obj, "timing", "after_attack"),
      proc     |-> Get(obj, "proc", <<0, 1>>),
      effects  |-> Get(obj, "effects", <<>>) ]

\* make_unit; an Optional skill is a sequence of length 0 or 1
make_unit(slot) ==
    LET unit_data == UnitMap[slot.uid]
        base      == unit_data.base_stats
        unique_id == unit_data.unique_skill_id
        unique_raw ==
            IF unique_id \in DOMAIN SkillMap
            THEN SkillMap[unique_id]
            ELSE [ skill_id |-> unique_id, name |-> unit_data.name,
                   slot |-> "unique", timing |-> "after_attack",
                   proc |-> <<0, 1>>, effects |-> <<>> ]
        max_soldiers == unit_data.max_soldiers
    IN  [ unit_id |-> unit_data.unit_id,
          name    |-> unit_data.name,
          stats   |-> [ str |-> Get(base, "str", 0), int |-> Get(base, "int", 0),
                        lea |-> Get(base, "lea", 0), spd |-> Get(base, "spd", 0) ],
          max_soldiers |-> max_soldiers,
          soldiers     |-> Max(0, Min(max_soldiers, slot.soldiers)),
          unique_skill |-> to_skill(unique_raw),
          learn20_skill |-> IF slot.l20 # "" THEN << to_skill(SkillMap[slot.l20]) >> ELSE <<>>,
          awaken_skill  |-> IF slot.awk # "" THEN << to_skill(SkillMap[slot.awk]) >> ELSE <<>>,
          statuses |-> EmptyMap ]

\* make_team of build_once
make_team(slots) == [i \in 1 .. Len(slots) |-> make_unit(slots[i])]

\* ---------------------------------------------------------------- state
VARIABLES
    T,            \* Engine.T, the tuning mapping
    slots_A,      \* app.py slots_A, the roster specification of team A
    slots_B,      \* app.py slots_B
    units,        \* all_units = team_a + team_b, a sequence of Unit records
    triggers,     \* Engine.triggers
    activated,    \* the successful proc rolls of this run_battle call, by skill name
    repeat,       \* build_once(seed) is going to be called a second time
    run,          \* 1 in the first call of build_once, 2 in the second
    seed,         \* the seed_val build_once is called with
    rng,          \* Engine.rng, the state of the generator (kept when repeat)
    pc,           \* position in run_battle
    turn,         \* the loop variable of run_battle
    a_initial,    \* run_battle's a_initial
    b_initial,    \* run_battle's b_initial
    order,        \* run_battle's order: indices into units
    pass,         \* "start" in the start pass, "attack" in the attack pass
    idx,          \* position in order of the unit u whose slot it is
    target,       \* index of the target of u, 0 for None
    skIdx,        \* position in u.all_skills()
    effIdx,       \* position in sk.effects inside _apply_effects
    team_self,    \* _apply_effects' team_self, bound when the skill triggers
    healTargets,  \* the targets of the heal effect still to be healed
    healed,       \* the last call of heal: target, its soldiers before, the
                  \* value returned; <<>> outside the loop over the targets
    hurt,         \* the sides that have lost soldiers in this turn
    struck,       \* the sides that have made a basic attack in this turn
    dealt,        \* the sides that have dealt damage (basic attack or damage
                  \* effect) in this turn
    applied,      \* the last call of add_status: the unit, its statuses before,
                  \* and the arguments; <<>> when none was made in this turn
    attacked,     \* the last basic attack of this turn: the attacker, its
                  \* target and the soldiers the target was left with; <<>>
                  \* when none was made
    result,       \* the BattleResult returned, <<>> while running
    prevResult,   \* the BattleResult of the first call, <<>> before
    calls,        \* the arguments (build_once, n) of the calls of simulate_many
    trial,        \* how many iterations simulate_many's loop has made
    wins,         \* simulate_many's wins
    a_losses,     \* simulate_many's a_losses
    b_losses,     \* simulate_many's b_losses
    trig,         \* simulate_many's trig, a dict as the list of its items
    subSeeds,     \* the sub-seeds build_once has been called with, in order
    aggOut,       \* the dict simulate_many returns, <<>> while running
    aggPrev       \* aggOut and subSeeds of the first call, <<>> before

vars == << T, slots_A, slots_B, units, triggers, activated, repeat, run, seed, rng,
           pc, turn, a_initial, b_initial, order, pass, idx, target, skIdx,
           effIdx, team_self, healTargets, healed, hurt, struck, dealt, applied, attacked, result, prevResult,
           calls,
           trial,
           wins, a_losses, b_losses, trig, subSeeds, aggOut, aggPrev >>

roster == << T, slots_A, slots_B, repeat, seed >>
cursor == << order, pass, idx, target, skIdx, effIdx, team_self,
            healTargets >>
battle == << units, triggers, activated, turn, a_initial, b_initial, cursor, healed,
             hurt, struck, dealt, applied, attacked, result, prevResult >>
agg    == << calls, trial, wins, a_losses, b_losses, trig, subSeeds, aggOut,
             aggPrev >>

\* team_a and team_b as index ranges of all_units
na     == Len(slots_A)
team_a == 1 .. na
team_b == (na + 1) .. Len(units)
SideOf(i) == IF i \in team_a THEN "A" ELSE "B"
Team(side) == IF side = "A" THEN team_a ELSE team_b
Other(side) == IF side = "A" THEN "B" ELSE "A"

\* ------------------------------------------------------------ engine.py
\* Unit.is_alive
is_alive(u) == u.soldiers > 0

\* Unit.has
has(u, status_name) ==
    status_name \in DOMAIN u.statuses /\ u.statuses[status_name].turns_left > 0

\* Unit.add_status
add_status(u, name, turns, stacks) ==
    IF name \in DOMAIN u.statuses
    THEN [u EXCEPT !.statuses =
            (name :> [ name |-> name,
                       turns_left |-> Max(u.statuses[name].turns_left, turns),
                       stacks |-> Min(u.statuses[name].stacks + stacks, 99) ])
            @@ u.statuses]
    ELSE [u EXCEPT !.statuses =
            (name :> [name |-> name, turns_left |-> turns, stacks |-> stacks])
            @@ u.statuses]

\* Unit.tick_statuses_end_of_turn
tick_statuses_end_of_turn(u) ==
    LET keep == { k \in DOMAIN u.statuses : u.statuses[k].turns_left - 1 > 0 }
    IN  [u EXCEPT !.statuses =
            [k \in keep |-> [u.statuses[k] EXCEPT !.turns_left = @ - 1]]]

\* Unit.all_skills
all_skills(u) == << u.unique_skill >> \o u.learn20_skill \o u.awaken_skill

\* a team (a set of indices) as the list of its indices, in list order
RECURSIVE Listed(_)
Listed(S) ==
    IF S = {} THEN <<>>
    ELSE LET m == CHOOSE x \in S : \A y \in S : x <= y
         IN  << m >> \o Listed(S \ {m})

\* Engine._alive
_alive(team) == Listed({ i \in team : is_alive(units[i]) })

\* `u in team_a`: list membership is identity or dataclass equality of all fields
InTeamA(i) == \E j \in team_a : j = i \/ units[j] = units[i]

\* enemy_team = team_b if u in team_a else team_a
enemy_team(i) == IF InTeamA(i) THEN team_b ELSE team_a
\* the team_self argument: team_a if u in team_a else team_b
own_team(i)   == IF InTeamA(i) THEN team_a ELSE team_b

\* Engine._pick_enemy: alive = self._alive(enemy_team), for the team u faces
enemies_alive(i) == _alive(enemy_team(i))

\* Engine._pick_allies_lowest: stable sort by soldiers, then the first count
_pick_allies_lowest(team, count) ==
    LET alive == { i \in team : is_alive(units[i]) }
        before(i) == { j \in alive : units[j].soldiers < units[i].soldiers
                                     \/ (units[j].soldiers = units[i].soldiers /\ j < i) }
        sorted == [p \in 1 .. Cardinality(alive) |->
                      CHOOSE i \in alive : Cardinality(before(i)) = p - 1]
    IN  SubSeq(sorted, 1, Max(0, Min(count, Cardinality(alive))))

\* Engine._record
_record(tr, sk) == (sk.name :> (Get(tr, sk.name, 0) + 1)) @@ tr

\* self.rng.uniform(random_min, random_max) for raw draw k
Uniform(k) ==
    LET lo == Get(T, "random_min", <<19, 20>>)
        hi == Get(T, "random_max", <<21, 20>>)
    IN  RAdd(lo, RMul(RSub(hi, lo), Rand(k)))

\* a troop scale that ignores the soldiers the attacker has lost
FullTroopScale(a) == <<1, 1>>

\* troop_scale = (a.soldiers / a.max_soldiers) if a.max_soldiers else 1.0
troop_scale(a) ==
    IF a.max_soldiers # 0 THEN Norm(a.soldiers, a.max_soldiers) ELSE <<1, 1>>

\* Engine.physical_damage
physical_damage(a, d, rate, k) ==
    LET atk_mix_lea == Get(T, "attack_mix_lea", <<1, 2>>)
        def_fac     == Get(T, "defense_factor_physical", <<7, 10>>)
        scale       == Get(T, "physical_scale", <<20, 1>>)
        atk  == RAdd(RInt(a.stats.str), RMul(atk_mix_lea, RInt(a.stats.lea)))
        df   == RInt(d.stats.lea)
        base == RMax0(RSub(atk, RMul(def_fac, df)))
        dmg  == RMul(RMul(RMul(RMul(base, rate), scale), troop_scale(a)), Uniform(k))
    IN  IntMax1(dmg)

\* Engine.strategy_damage
strategy_damage(a, d, rate, k) ==
    LET def_fac == Get(T, "defense_factor_strategy", <<4, 5>>)
        scale   == Get(T, "strategy_scale", <<22, 1>>)
        atk  == RInt(a.stats.int)
        df   == RInt(d.stats.int)
        base == RMax0(RSub(atk, RMul(def_fac, df)))
        dmg  == RMul(RMul(RMul(RMul(base, rate), scale), troop_scale(a)), Uniform(k))
    IN  IntMax1(dmg)

\* a damage that is not floored at 0
DamagedBelowZero(d, dmg) == [d EXCEPT !.soldiers = d.soldiers - dmg]

\* enemy_u.soldiers = max(0, enemy_u.soldiers - dmg)
Damaged(d, dmg) == [d EXCEPT !.soldiers = Max(0, d.soldiers - dmg)]

\* the amount computed by Engine.heal
HealAmount(h, rate, k) ==
    LET scale == Get(T, "heal_scale", <<18, 1>>)
        base  == RMul(RMul(RMul(RInt(h.stats.int), rate), scale), Uniform(k))
    IN  IntMax1(base)

\* a heal that is not capped at max_soldiers
HealedUncapped(t, amt) == [t EXCEPT !.soldiers = t.soldiers + amt]

\* t.soldiers = min(t.max_soldiers, t.soldiers + amt)
Healed(t, amt) == [t EXCEPT !.soldiers = Min(t.max_soldiers, t.soldiers + amt)]

\* Engine._final
_final(winner, turns) ==
    LET a_now == SumSeq([i \in 1 .. na |-> units[i].soldiers])
        b_now == SumSeq([i \in 1 .. (Len(units) - na) |-> units[na + i].soldiers])
        a_loss == IF a_initial # 0 THEN Norm(a_initial - a_now, a_initial) ELSE <<0, 1>>
        b_loss == IF b_initial # 0 THEN Norm(b_initial - b_now, b_initial) ELSE <<0, 1>>
    IN  [ winner |-> winner, turns |-> turns,
          a_loss_rate |-> a_loss, b_loss_rate |-> b_loss, triggers |-> triggers ]

\* ------------------------------------------------------ the generator
\* one step of the generator, and the state after n steps
Lcg(x) == (75 * x + 74) % 65537
RECURSIVE LcgN(_, _)
LcgN(x, n) == IF n = 0 THEN x ELSE LcgN(Lcg(x), n - 1)

\* Engine.rng makes the draws ds, in this order; ds[i] = <<v, n>> is the draw
\* of v out of 0..n-1
RngStep(ds) ==
    IF repeat
    THEN /\ \A i \in 1 .. Len(ds) : ds[i][1] = LcgN(rng, i) % ds[i][2]
         /\ rng' = LcgN(rng, Len(ds))
    ELSE rng' = rng
NoDraw == rng' = rng

\* random.Random(seed): the state of the generator seeded with s
Random(s) == LcgN(s + 1, 3)

\* a generator that is not seeded again: the state the last battle left
KeptRandom(s) == rng

\* Engine.__init__: self.rng = random.Random(seed)
EngineRandom(s) == Random(s)
\* Engine.__init__: self.triggers = {}
NewTriggers == EmptyMap

\* the record of a call u.add_status(name, turns, stacks)
Applied(i, name, turns, stacks) ==
    [ unit |-> i, before |-> units[i].statuses,
      name |-> name, turns |-> turns, stacks |-> stacks ]

\* ------------------------------------------------------- run_battle
u_idx == order[idx]
cur_u == units[u_idx]
cur_sk == all_skills(cur_u)[skIdx]
\* the confusion check left out: no unit is held to be confused
ConfusionIgnored(u) == FALSE

\* line 159 / 172: the flag is on and the unit carries confusion
confused(u) == Get(T, "confusion_skip_action", TRUE) /\ has(u, "confusion")
max_turns == Get(T, "max_turns", 8)

Return(winner, turns) ==
    /\ result' = _final(winner, turns)
    /\ pc' = "done"
    /\ UNCHANGED agg
    /\ UNCHANGED << roster, units, triggers, activated, run, turn, a_initial, b_initial,
                    cursor, healed, hurt, struck, dealt, applied, attacked, prevResult >>
    /\ NoDraw

\* the two checks in the other order: team B's defeat is looked at first
DefeatATieToA ==
    /\ pc = "check" /\ turn <= max_turns
    /\ _alive(team_a) = <<>>
    /\ IF _alive(team_b) = <<>>
       THEN Return("A", turn - 1)
       ELSE Return("B", turn - 1)

\* line 146-147: team A has no living unit
DefeatA ==
    /\ pc = "check" /\ turn <= max_turns
    /\ _alive(team_a) = <<>>
    /\ Return("B", turn - 1)

\* the defeat of team B reported with the index of the turn that did not start
DefeatBOffByOne ==
    /\ pc = "check" /\ turn <= max_turns
    /\ _alive(team_a) # <<>>
    /\ _alive(team_b) = <<>>
    /\ Return("A", turn)

\* line 148-149: team B has no living unit
DefeatB ==
    /\ pc = "check" /\ turn <= max_turns
    /\ _alive(team_a) # <<>>
    /\ _alive(team_b) = <<>>
    /\ Return("A", turn - 1)

\* line 190: the loop has run max_turns times
LoopExit ==
    /\ pc = "check" /\ turn > max_turns
    /\ Return("draw", max_turns)

\* the sort without reverse=True: the lowest key first
SortedAscending(living, key) ==
    LET lt(i, j) == \/ units[i].stats.spd < units[j].stats.spd
                    \/ /\ units[i].stats.spd = units[j].stats.spd
                       /\ key[i] < key[j]
        eq(i, j) == units[i].stats.spd = units[j].stats.spd /\ key[i] = key[j]
        before(i) == { j \in living : lt(j, i) \/ (eq(j, i) /\ j < i) }
    IN  [p \in 1 .. Cardinality(living) |->
            CHOOSE i \in living : Cardinality(before(i)) = p - 1]

\* sorted(..., key=(spd, rng.random()), reverse=True): a stable sort, so
\* units with equal keys keep the order of all_units
Sorted(living, key) ==
    LET gt(i, j) == \/ units[i].stats.spd > units[j].stats.spd
                    \/ /\ units[i].stats.spd = units[j].stats.spd
                       /\ key[i] > key[j]
        eq(i, j) == units[i].stats.spd = units[j].stats.spd /\ key[i] = key[j]
        before(i) == { j \in living : gt(j, i) \/ (eq(j, i) /\ j < i) }
    IN  [p \in 1 .. Cardinality(living) |->
            CHOOSE i \in living : Cardinality(before(i)) = p - 1]

\* line 151-153: the order of the turn
TurnOrder ==
    /\ pc = "check" /\ turn <= max_turns
    /\ _alive(team_a) # <<>> /\ _alive(team_b) # <<>>
    /\ LET living == { i \in 1 .. Len(units) : is_alive(units[i]) }
       IN  \E key \in [living -> RandRaw] :
             /\ RngStep([p \in 1 .. Cardinality(living) |->
                            << key[Listed(living)[p]], RandDenom >>])
             /\ order' = Sorted(living, key)
    /\ pass' = "start" /\ idx' = 1 /\ pc' = "slot"
    /\ UNCHANGED agg
    /\ UNCHANGED << roster, units, triggers, activated, run, turn, a_initial, b_initial,
                    target, skIdx, effIdx, team_self, healTargets, healed, hurt, struck, dealt, applied, attacked, result, prevResult >>

\* line 156 / 169: the pass has gone through order
PassEnd ==
    /\ pc = "slot" /\ idx > Len(order)
    /\ IF pass = "start"
       THEN pass' = "attack" /\ idx' = 1 /\ pc' = "slot"
       ELSE pass' = pass /\ idx' = idx /\ pc' = "tick"
    /\ UNCHANGED agg
    /\ UNCHANGED << roster, units, triggers, activated, run, turn, a_initial, b_initial,
                    order, target, skIdx, effIdx, team_self, healTargets, healed, hurt, struck, dealt, applied, attacked, result,
                    prevResult >>
    /\ NoDraw

\* line 157-162 / 170-175: the three `continue`s of a slot
SlotSkip ==
    /\ pc = "slot" /\ idx <= Len(order)
    /\ \/ ~is_alive(cur_u)
       \/ confused(cur_u)
       \/ enemies_alive(u_idx) = <<>>
    /\ idx' = idx + 1
    /\ UNCHANGED agg
    /\ UNCHANGED << roster, units, triggers, activated, run, pc, turn, a_initial, b_initial,
                    order, pass, target, skIdx, effIdx, team_self, healTargets, healed, hurt, struck, dealt, applied, attacked,
                    result, prevResult >>
    /\ NoDraw

\* line 160-163: target = self._pick_enemy(enemy_team), then the skills
StartPick ==
    /\ pc = "slot" /\ idx <= Len(order) /\ pass = "start"
    /\ is_alive(cur_u) /\ ~confused(cur_u)
    /\ LET alive == enemies_alive(u_idx)
       IN  \E c \in 1 .. Len(alive) :
             /\ RngStep(<< << c - 1, Len(alive) >> >>)
             /\ target' = alive[c]
    /\ skIdx' = 1 /\ pc' = "skill"
    /\ UNCHANGED agg
    /\ UNCHANGED << roster, units, triggers, activated, run, turn, a_initial, b_initial,
                    order, pass, idx, effIdx, team_self, healTargets, healed, hurt, struck, dealt, applied, attacked, result,
                    prevResult >>

\* the basic attack without the check of line 180: the after_attack skills
\* are gone through whether or not the target survived
AttackThenSkills ==
    /\ pc = "slot" /\ idx <= Len(order) /\ pass = "attack"
    /\ is_alive(cur_u) /\ ~confused(cur_u)
    /\ LET alive == enemies_alive(u_idx)
       IN  \E c \in 1 .. Len(alive), k \in RandRaw :
             LET t   == alive[c]
                 dmg == physical_damage(cur_u, units[t], <<1, 1>>, k)
                 hit == Damaged(units[t], dmg)
             IN  /\ RngStep(<< << c - 1, Len(alive) >>, << k, RandDenom >> >>)
                 /\ target' = t
                 /\ units' = [units EXCEPT ![t] = hit]
                 /\ hurt' = hurt \cup {SideOf(t)}
                 /\ attacked' = [unit |-> u_idx, target |-> t,
                                 left |-> hit.soldiers]
                 /\ skIdx' = 1 /\ pc' = "skill" /\ idx' = idx
    /\ struck' = struck \cup {SideOf(u_idx)}
    /\ dealt' = dealt \cup {SideOf(u_idx)} /\ applied' = applied
    /\ UNCHANGED agg
    /\ UNCHANGED << roster, triggers, activated, run, turn, a_initial, b_initial, order,
                    pass, effIdx, team_self, healTargets, healed, result, prevResult >>

\* line 173-180: the basic attack of u
Attack ==
    /\ pc = "slot" /\ idx <= Len(order) /\ pass = "attack"
    /\ is_alive(cur_u) /\ ~confused(cur_u)
    /\ LET alive == enemies_alive(u_idx)
       IN  \E c \in 1 .. Len(alive), k \in RandRaw :
             LET t   == alive[c]
                 dmg == physical_damage(cur_u, units[t], <<1, 1>>, k)
                 hit == Damaged(units[t], dmg)
             IN  /\ RngStep(<< << c - 1, Len(alive) >>, << k, RandDenom >> >>)
                 /\ target' = t
                 /\ units' = [units EXCEPT ![t] = hit]
                 /\ hurt' = hurt \cup {SideOf(t)}
                 /\ attacked' = [unit |-> u_idx, target |-> t,
                                 left |-> hit.soldiers]
                 /\ IF is_alive(hit)
                    THEN skIdx' = 1 /\ pc' = "skill" /\ idx' = idx
                    ELSE skIdx' = skIdx /\ pc' = "slot" /\ idx' = idx + 1
    /\ struck' = struck \cup {SideOf(u_idx)}
    /\ dealt' = dealt \cup {SideOf(u_idx)} /\ applied' = applied
    /\ UNCHANGED agg
    /\ UNCHANGED << roster, triggers, activated, run, turn, a_initial, b_initial, order,
                    pass, effIdx, team_self, healTargets, healed, result, prevResult >>

\* line 163 / 181: `for sk in u.all_skills()` is exhausted
SkillsEnd ==
    /\ pc = "skill" /\ skIdx > Len(all_skills(cur_u))
    /\ idx' = idx + 1 /\ pc' = "slot"
    /\ UNCHANGED agg
    /\ UNCHANGED << roster, units, triggers, activated, run, turn, a_initial, b_initial,
                    order, pass, target, skIdx, effIdx, team_self, healTargets, healed, hurt, struck, dealt, applied, attacked,
                    result, prevResult >>
    /\ NoDraw

\* the timing a pass looks for
Timing == IF pass = "start" THEN "start" ELSE "after_attack"

\* line 164 / 182: the timing differs, `and` makes no draw
SkillOther ==
    /\ pc = "skill" /\ skIdx <= Len(all_skills(cur_u))
    /\ cur_sk.timing # Timing
    /\ skIdx' = skIdx + 1
    /\ UNCHANGED agg
    /\ UNCHANGED << roster, units, triggers, activated, run, pc, turn, a_initial, b_initial,
                    order, pass, idx, target, effIdx, team_self, healTargets, healed, hurt, struck, dealt, applied, attacked,
                    result, prevResult >>
    /\ NoDraw

\* line 164-166 / 182-184: self.rng.random() < sk.proc, then _record
SkillRoll ==
    /\ pc = "skill" /\ skIdx <= Len(all_skills(cur_u))
    /\ cur_sk.timing = Timing
    /\ \E k \in RandRaw :
         /\ RngStep(<< << k, RandDenom >> >>)
         /\ IF RLess(Rand(k), cur_sk.proc)
            THEN /\ triggers' = _record(triggers, cur_sk)
                 /\ activated' = _record(activated, cur_sk)
                 /\ team_self' = own_team(u_idx)
                 /\ effIdx' = 1 /\ pc' = "effect" /\ skIdx' = skIdx
            ELSE /\ triggers' = triggers /\ activated' = activated
                 /\ team_self' = team_self
                 /\ effIdx' = effIdx /\ pc' = pc /\ skIdx' = skIdx + 1
    /\ UNCHANGED agg
    /\ UNCHANGED << roster, units, run, turn, a_initial, b_initial, order, pass,
                    idx, target, healTargets, healed, hurt, struck, dealt, applied, attacked, result, prevResult >>

\* ----------------------------------------------------- _apply_effects
cur_eff == cur_sk.effects[effIdx]
eff_type == Get(cur_eff, "type", "")

\* line 122: `for eff in sk.effects` is exhausted
EffectsEnd ==
    /\ pc = "effect" /\ effIdx > Len(cur_sk.effects)
    /\ skIdx' = skIdx + 1 /\ pc' = "skill"
    /\ UNCHANGED agg
    /\ UNCHANGED << roster, units, triggers, activated, run, turn, a_initial, b_initial,
                    order, pass, idx, target, effIdx, team_self, healTargets, healed, hurt, struck, dealt, applied, attacked,
                    result, prevResult >>
    /\ NoDraw

\* line 124-129: physical_damage and strategy_damage
EffectDamage ==
    /\ pc = "effect" /\ effIdx <= Len(cur_sk.effects)
    /\ eff_type \in {"physical_damage", "strategy_damage"}
    /\ \E k \in RandRaw :
         LET rate == Get(cur_eff, "rate", <<1, 1>>)
             dmg  == IF eff_type = "physical_damage"
                     THEN physical_damage(cur_u, units[target], rate, k)
                     ELSE strategy_damage(cur_u, units[target], rate, k)
         IN  /\ RngStep(<< << k, RandDenom >> >>)
             /\ units' = [units EXCEPT ![target] = Damaged(units[target], dmg)]
             /\ hurt' = IF is_alive(units[target])
                        THEN hurt \cup {SideOf(target)} ELSE hurt
             /\ dealt' = dealt \cup {SideOf(u_idx)}
             /\ UNCHANGED << applied, attacked >>
    /\ effIdx' = effIdx + 1
    /\ UNCHANGED agg
    /\ UNCHANGED << roster, triggers, activated, run, pc, turn, a_initial, b_initial, order,
                    pass, idx, target, skIdx, team_self, healTargets, healed, struck, result,
                    prevResult >>

\* line 130-133: the targets of a heal effect
EffectHeal ==
    /\ pc = "effect" /\ effIdx <= Len(cur_sk.effects)
    /\ eff_type = "heal"
    /\ LET count == Get(cur_eff, "count", 1)
       IN  healTargets' = IF Get(cur_eff, "target", "") = "ally_lowest"
                          THEN _pick_allies_lowest(team_self, count)
                          ELSE << u_idx >>
    /\ pc' = "heal" /\ team_self' = team_self
    /\ UNCHANGED agg
    /\ UNCHANGED << roster, units, triggers, activated, run, turn, a_initial, b_initial,
                    order, pass, idx, target, skIdx, effIdx, healed, hurt, struck, dealt, applied, attacked, result,
                    prevResult >>
    /\ NoDraw

\* line 134, 112-118: self.heal(self_u, t, rate) for the next target
HealOne ==
    /\ pc = "heal" /\ healTargets # <<>>
    /\ \E k \in RandRaw :
         LET t   == Head(healTargets)
             amt == HealAmount(cur_u, Get(cur_eff, "rate", <<1, 1>>), k)
         IN  /\ RngStep(<< << k, RandDenom >> >>)
             /\ units' = [units EXCEPT ![t] = Healed(units[t], amt)]
             /\ healed' = [t |-> t, before |-> units[t].soldiers, ret |-> amt]
    /\ healTargets' = Tail(healTargets) /\ team_self' = team_self
    /\ UNCHANGED << hurt, struck, dealt, applied, attacked >>
    /\ UNCHANGED agg
    /\ UNCHANGED << roster, triggers, activated, run, pc, turn, a_initial, b_initial, order,
                    pass, idx, target, skIdx, effIdx, result, prevResult >>

\* line 133: `for t in targets` is exhausted
HealEnd ==
    /\ pc = "heal" /\ healTargets = <<>>
    /\ healed' = <<>>
    /\ effIdx' = effIdx + 1 /\ pc' = "effect"
    /\ UNCHANGED << hurt, struck, dealt, applied, attacked >>
    /\ UNCHANGED agg
    /\ UNCHANGED << roster, units, triggers, activated, run, turn, a_initial, b_initial,
                    order, pass, idx, target, skIdx, team_self, healTargets, result,
                    prevResult >>
    /\ NoDraw

\* a status effect that applies whatever status the effect names
EffectStatusAnyName ==
    /\ pc = "effect" /\ effIdx <= Len(cur_sk.effects)
    /\ eff_type = "status"
    /\ units' = [units EXCEPT ![target] =
                    add_status(units[target], Get(cur_eff, "name", ""),
                               Get(cur_eff, "turns", 1), 1)]
    /\ applied' = Applied(target, Get(cur_eff, "name", ""),
                          Get(cur_eff, "turns", 1), 1)
    /\ effIdx' = effIdx + 1
    /\ UNCHANGED agg
    /\ UNCHANGED << roster, triggers, activated, run, pc, turn, a_initial,
                    b_initial, order, pass, idx, target, skIdx, team_self,
                    healTargets, healed, hurt, struck, dealt, attacked, result,
                    prevResult >>
    /\ NoDraw

\* line 135-137: a status effect; only confusion is applied
EffectStatus ==
    /\ pc = "effect" /\ effIdx <= Len(cur_sk.effects)
    /\ eff_type = "status"
    /\ IF Get(cur_eff, "name", "") = "confusion"
       THEN /\ units' = [units EXCEPT ![target] =
                            add_status(units[target], "confusion",
                                       Get(cur_eff, "turns", 1), 1)]
            /\ applied' = Applied(target, "confusion",
                                  Get(cur_eff, "turns", 1), 1)
       ELSE /\ units' = units
            /\ applied' = applied
    /\ effIdx' = effIdx + 1
    /\ UNCHANGED agg
    /\ UNCHANGED << roster, triggers, activated, run, pc, turn, a_initial,
                    b_initial, order, pass, idx, target, skIdx, team_self,
                    healTargets, healed, hurt, struck, dealt, attacked, result,
                    prevResult >>
    /\ NoDraw

\* line 123-137: no branch of the if/elif chain matches
EffectOther ==
    /\ pc = "effect" /\ effIdx <= Len(cur_sk.effects)
    /\ eff_type \notin {"physical_damage", "strategy_damage", "heal", "status"}
    /\ effIdx' = effIdx + 1
    /\ UNCHANGED agg
    /\ UNCHANGED << roster, units, triggers, activated, run, pc, turn, a_initial, b_initial,
                    order, pass, idx, target, skIdx, team_self, healTargets, healed, hurt, struck, dealt, applied, attacked,
                    result, prevResult >>
    /\ NoDraw

\* line 186-188: the statuses of the living units tick, the turn ends
Tick ==
    /\ pc = "tick"
    /\ units' = [i \in 1 .. Len(units) |->
                    IF is_alive(units[i])
                    THEN tick_statuses_end_of_turn(units[i])
                    ELSE units[i]]
    /\ turn' = turn + 1 /\ pc' = "check"
    /\ hurt' = {} /\ struck' = {} /\ dealt' = {} /\ applied' = <<>> /\ attacked' = <<>>
    /\ UNCHANGED agg
    /\ UNCHANGED << roster, triggers, activated, run, a_initial, b_initial, cursor, healed,
                    result, prevResult >>
    /\ NoDraw

\* ---------------------------------------------------------- build_once
Soldiers(team) == SumSeq([i \in 1 .. Len(team) |-> team[i].soldiers])

\* app.py build_once(seed_val) called again with the same seed: a new Engine,
\* new teams from the same slots, then run_battle up to its loop
BuildOnce ==
    /\ pc = "done" /\ repeat /\ run = 1
    /\ run' = 2
    /\ prevResult' = result
    /\ result' = <<>>
    /\ rng' = EngineRandom(seed)
    /\ triggers' = NewTriggers /\ activated' = EmptyMap
    /\ units' = make_team(slots_A) \o make_team(slots_B)
    /\ a_initial' = Soldiers(make_team(slots_A))
    /\ b_initial' = Soldiers(make_team(slots_B))
    /\ turn' = 1 /\ pc' = "check"
    /\ order' = <<>> /\ pass' = "start" /\ idx' = 1 /\ target' = 0
    /\ skIdx' = 1 /\ effIdx' = 1 /\ team_self' = {}
    /\ healTargets' = <<>> /\ healed' = <<>>
    /\ hurt' = {} /\ struck' = {} /\ dealt' = {} /\ applied' = <<>> /\ attacked' = <<>>
    /\ UNCHANGED << roster, agg >>

\* run_battle called again on the Engine of the last build_once, with new
\* teams from the same slots: __init__ is not run, self.rng and self.triggers
\* are what the last battle left
RunAgain ==
    /\ pc = "done" /\ repeat /\ run = 2
    /\ run' = 3
    /\ prevResult' = result
    /\ result' = <<>>
    /\ rng' = rng
    /\ triggers' = triggers /\ activated' = EmptyMap
    /\ units' = make_team(slots_A) \o make_team(slots_B)
    /\ a_initial' = Soldiers(make_team(slots_A))
    /\ b_initial' = Soldiers(make_team(slots_B))
    /\ turn' = 1 /\ pc' = "check"
    /\ order' = <<>> /\ pass' = "start" /\ idx' = 1 /\ target' = 0
    /\ skIdx' = 1 /\ effIdx' = 1 /\ team_self' = {}
    /\ healTargets' = <<>> /\ healed' = <<>>
    /\ hurt' = {} /\ struck' = {} /\ dealt' = {} /\ applied' = <<>> /\ attacked' = <<>>
    /\ UNCHANGED << roster, agg >>

\* ------------------------------------------------------- simulate_many
\* the BattleResults a battle factory returns; triggers is a dict as the list
\* of its items
AggResults ==
    { [ winner |-> "A", turns |-> 1, a_loss_rate |-> <<0, 1>>,
        b_loss_rate |-> <<1, 1>>, triggers |-> << <<"Slash", 2>> >> ],
      [ winner |-> "B", turns |-> 2, a_loss_rate |-> <<1, 1>>,
        b_loss_rate |-> <<1, 3>>, triggers |-> << <<"Fire", 1>>, <<"Slash", 1>> >> ],
      [ winner |-> "draw", turns |-> 8, a_loss_rate |-> <<1, 2>>,
        b_loss_rate |-> <<1, 2>>, triggers |-> <<>> ] }

\* the build_once argument: a deterministic factory, a function of the sub-seed
Factories == [0 .. MaxSubSeed -> AggResults]

\* a count that leaves the draws out
CountWinNoDraw(w, winner) ==
    IF winner = "draw" THEN w ELSE [w EXCEPT ![winner] = @ + 1]

\* wins[res.winner] += 1
CountWin(w, winner) == [w EXCEPT ![winner] = @ + 1]

\* trig[k] = trig.get(k, 0) + v, on a dict kept as the list of its items
RECURSIVE AddTrigger(_, _, _)
AddTrigger(d, k, v) ==
    IF d = <<>> THEN << <<k, v>> >>
    ELSE IF Head(d)[1] = k THEN << <<k, Head(d)[2] + v>> >> \o Tail(d)
    ELSE << Head(d) >> \o AddTrigger(Tail(d), k, v)

\* for k,v in res.triggers.items(): trig[k] = trig.get(k, 0) + v
RECURSIVE AddTriggers(_, _)
AddTriggers(d, items) ==
    IF items = <<>> THEN d
    ELSE AddTriggers(AddTrigger(d, Head(items)[1], Head(items)[2]), Tail(items))

\* sorted(xs) for a list of rationals
SortedR(xs) ==
    LET before(i) == { j \in 1 .. Len(xs) :
                          RLess(xs[j], xs[i]) \/ (xs[j] = xs[i] /\ j < i) }
    IN  [p \in 1 .. Len(xs) |->
            xs[CHOOSE i \in 1 .. Len(xs) : Cardinality(before(i)) = p - 1]]

RECURSIVE SumR(_)
SumR(xs) == IF xs = <<>> THEN <<0, 1>> ELSE RAdd(Head(xs), SumR(Tail(xs)))

\* stats(xs); "stdev" holds the square of statistics.pstdev(xs)
stats(xs) ==
    LET n    == Len(xs)
        srt  == SortedR(xs)
        mean == RMul(SumR(xs), <<1, n>>)
        sq   == [i \in 1 .. n |-> RMul(RSub(xs[i], mean), RSub(xs[i], mean))]
    IN  IF xs = <<>>
        THEN [ mean |-> <<0, 1>>, median |-> <<0, 1>>, min |-> <<0, 1>>,
               max |-> <<0, 1>>, stdev |-> <<0, 1>> ]
        ELSE [ mean   |-> mean,
               median |-> IF n % 2 = 1 THEN srt[(n + 1) \div 2]
                          ELSE RMul(RAdd(srt[n \div 2], srt[n \div 2 + 1]), <<1, 2>>),
               min    |-> srt[1],
               max    |-> srt[n],
               stdev  |-> RMul(SumR(sq), <<1, n>>) ]

\* the number of skills of skill_triggers_top
TopK == 15

\* dict(sorted(trig.items(), key=lambda x: x[1], reverse=True)[:15])
trig_top(d) ==
    LET before(i) == { j \in 1 .. Len(d) :
                          d[j][2] > d[i][2] \/ (d[j][2] = d[i][2] /\ j < i) }
        srt == [p \in 1 .. Len(d) |->
                   d[CHOOSE i \in 1 .. Len(d) : Cardinality(before(i)) = p - 1]]
    IN  SubSeq(srt, 1, Min(TopK, Len(d)))

\* wins["A"]/n if n else 0.0
Rate(count, n) == IF n # 0 THEN Norm(count, n) ELSE <<0, 1>>

cur_call == calls[run]

\* line 205-211: one iteration of the loop
Trial ==
    /\ pc = "trials" /\ trial < cur_call.n
    /\ \E sub \in 0 .. MaxSubSeed :
         LET res == cur_call.build_once[sub]
         IN  /\ RngStep(<< << sub, MaxSubSeed + 1 >> >>)
             /\ subSeeds' = Append(subSeeds, sub)
             /\ wins' = CountWin(wins, res.winner)
             /\ a_losses' = Append(a_losses, res.a_loss_rate)
             /\ b_losses' = Append(b_losses, res.b_loss_rate)
             /\ trig' = AddTriggers(trig, res.triggers)
    /\ trial' = trial + 1
    /\ UNCHANGED << roster, battle, run, pc, calls, aggOut, aggPrev >>

\* line 213-232: the loop is over, the dict is returned
Aggregate ==
    /\ pc = "trials" /\ trial >= cur_call.n
    /\ LET n == cur_call.n
       IN  aggOut' = [ n |-> n,
                       wins |-> wins,
                       win_rate_A |-> Rate(wins["A"], n),
                       win_rate_B |-> Rate(wins["B"], n),
                       draw_rate  |-> Rate(wins["draw"], n),
                       loss_A |-> stats(a_losses),
                       loss_B |-> stats(b_losses),
                       skill_triggers_top |-> trig_top(trig) ]
    /\ pc' = "returned"
    /\ UNCHANGED << roster, battle, run, calls, trial, wins, a_losses, b_losses,
                    trig, subSeeds, aggPrev >>
    /\ NoDraw

\* a generator that is not seeded again: the state the last call left
AggKeptRandom(s) == rng

\* simulate_many's rng = random.Random(seed)
AggRandom(s) == Random(s)

\* line 200-203: simulate_many is called again with the same seed
SimulateAgain ==
    /\ pc = "returned" /\ repeat /\ run = 1
    /\ run' = 2
    /\ aggPrev' = [out |-> aggOut, subSeeds |-> subSeeds]
    /\ aggOut' = <<>>
    /\ rng' = AggRandom(seed)
    /\ wins' = [A |-> 0, B |-> 0, draw |-> 0]
    /\ a_losses' = <<>> /\ b_losses' = <<>> /\ trig' = <<>>
    /\ trial' = 0 /\ subSeeds' = <<>>
    /\ pc' = "trials"
    /\ UNCHANGED << roster, battle, calls >>

\* the rosters and tunings the battles are run on
Rosters ==
    { r \in SmallTunings \X SmallTeams \X SmallTeams :
        ~(Len(r[2]) = 2 /\ r[2][2].l20 # "" /\ r[3] = r[2]) }
    \cup ({ExampleTuning} \X ExampleTeams \X ExampleTeams)

\* the generator of the first call: any stream, or the stream of a seed
InitRng ==
    \/ repeat = FALSE /\ seed = 0 /\ rng = 0
    \/ repeat = TRUE /\ seed \in 0 .. MaxSeed /\ rng = Random(seed)

\* simulate_many has not been called
AggIdle ==
    /\ calls = <<>> /\ trial = 0 /\ wins = [A |-> 0, B |-> 0, draw |-> 0]
    /\ a_losses = <<>> /\ b_losses = <<>> /\ trig = <<>> /\ subSeeds = <<>>
    /\ aggOut = <<>> /\ aggPrev = <<>>

\* no battle is run by the model
BattleIdle ==
    /\ T = ExampleTuning /\ slots_A = <<>> /\ slots_B = <<>> /\ units = <<>>
    /\ triggers = EmptyMap /\ activated = EmptyMap /\ a_initial = 0 /\ b_initial = 0 /\ turn = 1
    /\ order = <<>> /\ pass = "start" /\ idx = 1 /\ target = 0
    /\ skIdx = 1 /\ effIdx = 1 /\ team_self = {} /\ healTargets = <<>>
    /\ healed = <<>> /\ hurt = {} /\ struck = {} /\ dealt = {} /\ applied = <<>> /\ attacked = <<>>
    /\ result = <<>> /\ prevResult = <<>>

\* build_once(seed_val) has made the Engine and the teams and run_battle is at
\* the head of its loop
InitBattle ==
    /\ \E r \in Rosters : T = r[1] /\ slots_A = r[2] /\ slots_B = r[3]
    /\ InitRng
    /\ run = 1
    /\ triggers = EmptyMap /\ activated = EmptyMap
    /\ units = make_team(slots_A) \o make_team(slots_B)
    /\ a_initial = Soldiers(make_team(slots_A))
    /\ b_initial = Soldiers(make_team(slots_B))
    /\ turn = 1 /\ pc = "check"
    /\ order = <<>> /\ pass = "start" /\ idx = 1 /\ target = 0
    /\ skIdx = 1 /\ effIdx = 1 /\ team_self = {} /\ healTargets = <<>>
    /\ healed = <<>> /\ hurt = {} /\ struck = {} /\ dealt = {} /\ applied = <<>> /\ attacked = <<>>
    /\ result = <<>> /\ prevResult = <<>>
    /\ AggIdle

\* simulate_many(build_once, n, seed) is at the head of its loop; a second call
\* is made with the same or another factory and trial count
InitAggregate ==
    /\ \E f \in Factories, g \in Factories, n1 \in 0 .. MaxN, n2 \in 0 .. MaxN :
         /\ g = f \/ g = [x \in 0 .. MaxSubSeed |-> f[0]]
         /\ calls = << [build_once |-> f, n |-> n1], [build_once |-> g, n |-> n2] >>
    /\ InitRng
    /\ run = 1
    /\ trial = 0 /\ wins = [A |-> 0, B |-> 0, draw |-> 0]
    /\ a_losses = <<>> /\ b_losses = <<>> /\ trig = <<>> /\ subSeeds = <<>>
    /\ aggOut = <<>> /\ aggPrev = <<>>
    /\ pc = "trials"
    /\ BattleIdle

\* a unit outside any battle, on which add_status and
\* tick_statuses_end_of_turn are called in any order
StatusNames == {"confusion"}
StackArgs == {1, 50, 100}
ProbeSlot == Slot("guan", 3, "", "")

InitStatus ==
    /\ pc = "status"
    /\ T = ExampleTuning /\ slots_A = << ProbeSlot >> /\ slots_B = <<>>
    /\ units = make_team(slots_A)
    /\ repeat = FALSE /\ seed = 0 /\ rng = 0 /\ run = 1
    /\ triggers = EmptyMap /\ activated = EmptyMap
    /\ a_initial = 0 /\ b_initial = 0 /\ turn = 1
    /\ order = <<>> /\ pass = "start" /\ idx = 1 /\ target = 0
    /\ skIdx = 1 /\ effIdx = 1 /\ team_self = {} /\ healTargets = <<>>
    /\ healed = <<>> /\ hurt = {} /\ struck = {} /\ dealt = {} /\ applied = <<>> /\ attacked = <<>>
    /\ result = <<>> /\ prevResult = <<>>
    /\ AggIdle

\* u.add_status(name, turns, stacks)
AddStatus ==
    /\ pc = "status"
    /\ \E name \in StatusNames, turns \in 0 .. MaxStatusTurns, stacks \in StackArgs :
         /\ units' = [units EXCEPT ![1] = add_status(units[1], name, turns, stacks)]
         /\ applied' = Applied(1, name, turns, stacks)
    /\ UNCHANGED << roster, agg, triggers, activated, run, rng, pc, turn,
                    a_initial, b_initial, order, pass, idx, target, skIdx,
                    effIdx, team_self, healTargets, healed, hurt, struck,
                    dealt, attacked, result, prevResult >>

\* u.tick_statuses_end_of_turn()
StatusTick ==
    /\ pc = "status"
    /\ units' = [units EXCEPT ![1] = tick_statuses_end_of_turn(units[1])]
    /\ applied' = <<>> /\ attacked' = <<>>
    /\ UNCHANGED << roster, agg, triggers, activated, run, rng, pc, turn,
                    a_initial, b_initial, order, pass, idx, target, skIdx,
                    effIdx, team_self, healTargets, healed, hurt, struck,
                    dealt, result, prevResult >>

Init == InitBattle \/ InitAggregate \/ InitStatus

Next ==
    \/ DefeatA \/ DefeatB \/ LoopExit \/ TurnOrder
    \/ PassEnd \/ SlotSkip \/ StartPick \/ Attack
    \/ SkillsEnd \/ SkillOther \/ SkillRoll
    \/ EffectsEnd \/ EffectDamage \/ EffectHeal \/ HealOne \/ HealEnd
    \/ EffectStatus \/ EffectOther
    \/ Tick
    \/ BuildOnce \/ RunAgain
    \/ Trial \/ Aggregate \/ SimulateAgain
    \/ AddStatus \/ StatusTick

Spec == Init /\ [][Next]_vars

\* ===================================================================
\* The claims
\* ===================================================================
InBattle == pc \in {"check", "slot", "skill", "effect", "heal", "tick", "done"}
Fresh    == make_team(slots_A) \o make_team(slots_B)
a_loss   == result.a_loss_rate
b_loss   == result.b_loss_rate

\* C1 -- Soldier bounds: the rosters start with 0 <= soldiers <= max_soldiers
\* (make_unit clamps), and in every state of run_battle, after every basic
\* attack, damage effect, heal and status effect of every turn, every unit of
\* both teams has 0 <= soldiers <= max_soldiers.
C1_SoldierBounds ==
    \A i \in 1 .. Len(units) :
        0 <= units[i].soldiers /\ units[i].soldiers <= units[i].max_soldiers

\* C1 witness: inside a turn, a unit that a heal has brought to max_soldiers
\* stands next to a unit that damage has brought to 0.
C1_Witness ==
    /\ pc = "heal" /\ healed # <<>>
    /\ units[healed.t].soldiers = units[healed.t].max_soldiers
    /\ healed.before < units[healed.t].soldiers
    /\ \E i \in 1 .. Len(units) : units[i].soldiers = 0 /\ Fresh[i].soldiers > 0

\* C2 as claimed -- whenever team B has no living unit at the start of turn k
\* (1 <= k <= max_turns), run_battle returns winner "A" and turns = k - 1.
C2_Original ==
    [][ (pc = "check" /\ turn >= 1 /\ turn <= max_turns /\ _alive(team_b) = <<>>)
        => (pc' = "done" /\ result'.winner = "A" /\ result'.turns = turn - 1) ]_vars

\* C2 as amended -- whenever team B has no living unit and team A has at least
\* one at the start of turn k (1 <= k <= max_turns), run_battle returns winner
\* "A" and turns = k - 1.
C2_TerminalCorrectness ==
    [][ (pc = "check" /\ turn >= 1 /\ turn <= max_turns
         /\ _alive(team_b) = <<>> /\ _alive(team_a) # <<>>)
        => (pc' = "done" /\ result'.winner = "A" /\ result'.turns = turn - 1) ]_vars

\* C2 witness: team B lost its last unit in turn 1 and the check before turn 2
\* has returned winner "A" with turns = 1.
C2_Witness ==
    /\ pc = "done" /\ result.winner = "A" /\ result.turns = 1
    /\ _alive(team_b) = <<>> /\ _alive(team_a) # <<>>

\* C3 -- for a battle of at least one turn: the winner is "draw" only if
\* max_turns turns have been completed and both teams have a living unit when
\* the result is produced; if exactly one team has no living unit then (also
\* when it was wiped out during turn max_turns) the other team is the winner.
C3_DrawOnlyWithTwoTeams ==
    (pc = "done" /\ max_turns >= 1) =>
        /\ result.winner = "draw" =>
              /\ turn > max_turns
              /\ _alive(team_a) # <<>> /\ _alive(team_b) # <<>>
        /\ (_alive(team_b) = <<>> /\ _alive(team_a) # <<>>) => result.winner = "A"
        /\ (_alive(team_a) = <<>> /\ _alive(team_b) # <<>>) => result.winner = "B"

\* C4 -- Determinism: build_once called twice with the same rosters, tuning
\* and seed makes run_battle return the same BattleResult twice: the same
\* winner, turns, a_loss_rate, b_loss_rate and triggers map.
C4_Determinism ==
    (pc = "done" /\ run = 2) => result = prevResult

\* C4 witness: the second battle of a seed has ended like the first one, after
\* at least one full turn in which a skill was rolled and triggered.
C4_Witness ==
    /\ pc = "done" /\ run = 2 /\ result = prevResult
    /\ result.turns >= 1 /\ result.triggers # EmptyMap
    /\ result.a_loss_rate # <<0, 1>>

\* the example of the spec: two single-unit teams of equal stats
IsExample ==
    T = ExampleTuning /\ slots_A \in ExampleTeams /\ slots_B \in ExampleTeams

C6_HealingCap ==
    healed # <<>> =>
        LET t == units[healed.t]
        IN  /\ healed.ret >= 1
            /\ t.soldiers = Min(t.max_soldiers, healed.before + healed.ret)
            /\ healed.before = t.max_soldiers => t.soldiers = healed.before

\* C6 witness: heal has just been called on a target at max_soldiers and has
\* returned an amount of at least 1.
C6_Witness ==
    /\ healed # <<>> /\ healed.before = units[healed.t].max_soldiers
    /\ healed.ret >= 1 /\ units[healed.t].soldiers = healed.before

\* C7 -- Aggregator accounting: every trial increments exactly one counter,
\* so after simulate_many has folded its N results wins["A"] + wins["B"] +
\* wins["draw"] = N; win_rate_A + win_rate_B + draw_rate = 1 when N > 0, and
\* the three rates are 0 when N = 0.
C7_Accounting ==
    /\ pc = "trials" => wins["A"] + wins["B"] + wins["draw"] = trial
    /\ pc = "returned" =>
          LET n == aggOut.n
              w == aggOut.wins
              sum == RAdd(RAdd(aggOut.win_rate_A, aggOut.win_rate_B),
                          aggOut.draw_rate)
          IN  /\ n = cur_call.n
              /\ w["A"] + w["B"] + w["draw"] = n
              /\ n > 0 => sum = <<1, 1>>
              /\ n = 0 => /\ aggOut.win_rate_A = <<0, 1>>
                          /\ aggOut.win_rate_B = <<0, 1>>
                          /\ aggOut.draw_rate = <<0, 1>>

\* C7 witness: simulate_many has returned after at least two trials, a draw
\* and a decided battle among them.
C7_Witness ==
    /\ pc = "returned" /\ aggOut.n >= 2
    /\ aggOut.wins["draw"] >= 1 /\ aggOut.wins["A"] + aggOut.wins["B"] >= 1

\* C8 -- Aggregator reproducibility: the sub-seed of trial i depends on the
\* top-level seed and on i only, so a second call of simulate_many with the
\* same seed hands out the same sub-seeds as the first, trial by trial,
\* whatever the factory returns and however many trials either call makes;
\* with the same factory and the same N it returns the same aggregate.
C8_Reproducibility ==
    (pc \in {"trials", "returned"} /\ run = 2) =>
        /\ \A i \in 1 .. Min(Len(subSeeds), Len(aggPrev.subSeeds)) :
               subSeeds[i] = aggPrev.subSeeds[i]
        /\ (pc = "returned" /\ calls[1] = calls[2]) => aggOut = aggPrev.out

\* C8 witness: the second call with the same factory, N >= 2 and seed has
\* returned the aggregate of the first; the factory's result depends on the
\* sub-seed and the sub-seeds handed out were not all the same.
C8_Witness ==
    /\ pc = "returned" /\ run = 2 /\ calls[1] = calls[2]
    /\ aggOut = aggPrev.out /\ aggOut.n >= 2
    /\ \E i, j \in 1 .. Len(subSeeds) :
          /\ subSeeds[i] # subSeeds[j]
          /\ cur_call.build_once[subSeeds[i]] # cur_call.build_once[subSeeds[j]]

\* the roster of a side has no living unit when run_battle starts
DeadAtStart(side) ==
    IF side = "A"
    THEN \A i \in 1 .. Len(slots_A) : ~is_alive(make_unit(slots_A[i]))
    ELSE \A i \in 1 .. Len(slots_B) : ~is_alive(make_unit(slots_B[i]))

\* C9 -- Degenerate start: for every tuning, when a roster has no living
\* unit at the start of run_battle the call returns at once with a one-sided
\* result: the winner is the other side (one of the two sides when neither
\* roster has a living unit), turns = 0, and no unit has been changed.
C9_DegenerateStart ==
    (InBattle /\ units # <<>> /\ (DeadAtStart("A") \/ DeadAtStart("B"))) =>
        /\ pc \in {"check", "done"} /\ units = Fresh
        /\ pc = "done" =>
              /\ result.turns = 0
              /\ result.winner \in {"A", "B"}
              /\ \A side \in {"A", "B"} :
                    (DeadAtStart(side) /\ ~DeadAtStart(Other(side)))
                        => result.winner = Other(side)

\* C9 for the tunings that run at least one turn (max_turns >= 1): here the
\* degenerate start does return at once, one-sided, with turns = 0.
C9_WithinTurns ==
    max_turns >= 1 => C9_DegenerateStart

\* the team a unit faces
Opposing(i) == Team(Other(SideOf(i)))
\* the steps of a turn
InTurn == pc \in {"slot", "skill", "effect", "heal", "tick"}

\* C10, first half -- a slot (start pass or attack pass) reached while the
\* opposing team of its unit has no living unit changes nothing: no soldiers,
\* no statuses, no trigger; the loop goes on to the next slot.
C10_EmptyPoolNoEffect ==
    [][ (pc = "slot" /\ idx <= Len(order) /\ _alive(Opposing(u_idx)) = <<>>)
        => /\ units' = units /\ triggers' = triggers
           /\ pc' = "slot" /\ idx' = idx + 1 ]_vars

\* C10, second half -- Conservation: a team whose enemies are all eliminated
\* before any of its own attacks (basic attack or damage effect) of the turn
\* has resolved has lost no soldiers in that turn.
C10_Conservation ==
    InTurn => \A side \in {"A", "B"} :
        (_alive(Team(Other(side))) = <<>> /\ side \notin dealt)
            => side \notin hurt

\* C10, what does hold: from the moment all enemies of a team are eliminated
\* no unit of that team loses soldiers in the rest of the turn.
C10_NoLossAfterwards ==
    [][ \A side \in {"A", "B"} :
          (InTurn /\ _alive(Team(Other(side))) = <<>>) =>
              \A i \in Team(side) : units'[i].soldiers >= units[i].soldiers ]_vars

\* the soldiers a team holds now, and the most it can hold
Now(side)  == SumSeq([p \in 1 .. Len(Listed(Team(side))) |->
                        units[Listed(Team(side))[p]].soldiers])
Room(side) == SumSeq([p \in 1 .. Len(Listed(Team(side))) |->
                        units[Listed(Team(side))[p]].max_soldiers])
RLeq(x, y) == ~RLess(y, x)

\* C11 as claimed -- the a_loss_rate and b_loss_rate of every BattleResult lie
\* in [0, 1]: a team's final total soldiers never exceeds its initial total.
C11_Original ==
    (pc = "done" /\ units # <<>>) =>
        /\ RLeq(<<0, 1>>, a_loss) /\ RLeq(a_loss, <<1, 1>>)
        /\ RLeq(<<0, 1>>, b_loss) /\ RLeq(b_loss, <<1, 1>>)
        /\ Now("A") <= a_initial /\ Now("B") <= b_initial

\* C11 as amended -- every loss rate is at most 1 and is (initial - final) /
\* initial (0 for an initial total of 0); it is at least 0 for a team whose
\* units all start at max_soldiers, and a team with a unit below max_soldiers
\* can be healed above its initial total, down to a loss rate of
\* -(sum of max_soldiers - initial) / initial.
C11_LossRate ==
    (pc = "done" /\ units # <<>>) =>
        /\ RLeq(a_loss, <<1, 1>>) /\ RLeq(b_loss, <<1, 1>>)
        /\ a_loss = (IF a_initial = 0 THEN <<0, 1>>
                     ELSE Norm(a_initial - Now("A"), a_initial))
        /\ b_loss = (IF b_initial = 0 THEN <<0, 1>>
                     ELSE Norm(b_initial - Now("B"), b_initial))
        /\ Now("A") <= Room("A") /\ Now("B") <= Room("B")
        /\ a_initial = Room("A") => RLeq(<<0, 1>>, a_loss)
        /\ b_initial = Room("B") => RLeq(<<0, 1>>, b_loss)

\* C11 witness: a battle has ended in which a team that started at
\* max_soldiers and carries a heal skill has a loss rate strictly between 0
\* and 1, the skill having triggered.
C11_Witness ==
    /\ pc = "done" /\ units # <<>> /\ a_initial = Room("A")
    /\ "Cure" \in DOMAIN result.triggers
    /\ RLess(<<0, 1>>, a_loss) /\ RLess(a_loss, <<1, 1>>)
    /\ \E i \in team_a : all_skills(units[i])[1].skill_id = "cure"

\* C12 -- Per-battle trigger map: for any sequence of run_battle calls, the
\* triggers map of the BattleResult of a call counts exactly the successful
\* proc rolls made during that call; activations of an earlier battle are not
\* in a later battle's result.
C12_PerBattleTriggers ==
    (pc = "done" /\ units # <<>>) => result.triggers = activated

\* C12 for the first run_battle call on an Engine (what build_once does): the
\* triggers map of the result counts exactly the activations of the call.
C12_FirstCallOnEngine ==
    (pc = "done" /\ units # <<>> /\ run <= 2) => result.triggers = activated

\* C13 -- Simultaneous wipe tie rule: when at the termination check before a
\* turn neither team A nor team B has a living unit, team A's defeat is found
\* first and run_battle returns winner "B" with turns = turn - 1.
C13_TieRule ==
    [][ (pc = "check" /\ turn <= max_turns /\ units # <<>>
         /\ _alive(team_a) = <<>> /\ _alive(team_b) = <<>>)
        => (pc' = "done" /\ result'.winner = "B" /\ result'.turns = turn - 1
            /\ units' = units) ]_vars

\* C13 witness: run_battle has returned winner "B" from a check at which
\* neither team had a living unit.
C13_Witness ==
    /\ pc = "done" /\ units # <<>> /\ turn <= max_turns
    /\ _alive(team_a) = <<>> /\ _alive(team_b) = <<>>
    /\ result.winner = "B" /\ result.turns = turn - 1

\* -------------------------------------------------------------------
\* C14.  Every status a unit carries has stacks <= 99, whatever sequence of
\* add_status calls and end-of-turn ticks the unit has gone through.
C14_StacksCapped ==
    \A i \in DOMAIN units : \A k \in DOMAIN units[i].statuses :
        units[i].statuses[k].stacks <= 99

\* C14, the re-application alone: a call of add_status on a unit that already
\* carries the status leaves turns_left at the larger of the previous value
\* and the given turns (so never below the previous value) and stacks at the
\* previous stacks plus the added ones, capped at 99.
C14_Reapplication ==
    (applied # <<>> /\ applied.name \in DOMAIN applied.before) =>
        LET was == applied.before[applied.name]
            now == units[applied.unit].statuses[applied.name]
        IN  /\ now.turns_left = Max(was.turns_left, applied.turns)
            /\ now.turns_left >= was.turns_left
            /\ now.stacks = Min(was.stacks + applied.stacks, 99)

\* a status is applied for the first time with more than 99 stacks
C14_FirstApplication ==
    /\ applied # <<>> /\ applied.name \notin DOMAIN applied.before
    /\ applied.stacks > 99
    /\ units[applied.unit].statuses[applied.name].stacks = applied.stacks

\* a re-application inside a battle: confusion is inflicted again on a unit
\* that still carries it
C14_ReappliedInBattle ==
    /\ InBattle /\ applied # <<>> /\ applied.name \in DOMAIN applied.before
    /\ applied.before[applied.name].turns_left < applied.turns

\* -------------------------------------------------------------------
\* the unit of the slot is alive and carries confusion with turns_left > 0
SlotOfConfused ==
    /\ pc = "slot" /\ idx <= Len(order)
    /\ is_alive(cur_u)
    /\ "confusion" \in DOMAIN cur_u.statuses
    /\ cur_u.statuses["confusion"].turns_left > 0
FlagOn == Get(T, "confusion_skip_action", TRUE)

\* C15 -- Confusion skip: with confusion_skip_action true or absent, a living
\* unit that carries confusion with turns_left > 0 when its slot is reached, in
\* the start pass or in the attack pass, does nothing in that slot: no target
\* is picked (no random draw is made), no soldiers and no statuses change,
\* nobody is healed and no trigger is recorded; the loop moves to the next
\* slot.  With the flag false the same unit acts as an unconfused one does: it
\* picks a living enemy, and then rolls its skills (start pass) or makes its
\* basic attack (attack pass).
C15_ConfusionSkip ==
    [][ /\ (SlotOfConfused /\ FlagOn) =>
              /\ idx' = idx + 1 /\ pc' = "slot" /\ pass' = pass
              /\ UNCHANGED << units, triggers, activated, target, rng,
                              healed, applied, hurt, struck, dealt >>
        /\ (SlotOfConfused /\ ~FlagOn /\ enemies_alive(u_idx) # <<>>) =>
              /\ \E c \in 1 .. Len(enemies_alive(u_idx)) :
                    target' = enemies_alive(u_idx)[c]
              /\ pass = "start" => (pc' = "skill" /\ units' = units)
              /\ pass = "attack" => SideOf(u_idx) \in struck'
      ]_vars

\* the slot before the current one belonged to a living unit that has carried
\* confusion since the turn before (its counter has been ticked down and not
\* refreshed), with the flag on and an enemy to pick: the slot was skipped
C15_Witness ==
    /\ pc = "slot" /\ idx > 1 /\ idx - 1 <= Len(order) /\ pass = "attack"
    /\ turn = 2 /\ FlagOn
    /\ LET v == order[idx - 1]
       IN  /\ is_alive(units[v])
           /\ "confusion" \in DOMAIN units[v].statuses
           /\ units[v].statuses["confusion"].turns_left = 1
           /\ enemies_alive(v) # <<>>
           /\ SideOf(v) \notin struck

\* a confused unit acts because the flag is false
C15_FlagOffActs ==
    /\ pc = "skill" /\ ~FlagOn /\ has(cur_u, "confusion") /\ pass = "attack"
    /\ SideOf(u_idx) \in struck

\* -------------------------------------------------------------------
\* the skills of the current unit are being gone through, or one is applied
AtSkills == pc \in {"skill", "effect", "heal"}
\* a skill of the current unit is rolled or recorded by the step
Rolls == pc = "skill" /\ (triggers' # triggers \/ rng' # rng \/ pc' = "effect")

\* C16 -- After-attack gating: in the attack pass the skills of a unit are
\* gone through only after that unit's own basic attack of the turn, and only
\* when the attack left its target with soldiers > 0; only after_attack skills
\* are rolled, recorded and applied there, a start skill never is.  A basic
\* attack that leaves the target at 0 soldiers moves straight to the next
\* slot: no skill of the attacker is rolled or recorded.
C16_AfterAttackGating ==
    [][ /\ (pass = "attack" /\ AtSkills) =>
              /\ attacked # <<>>
              /\ attacked.unit = u_idx /\ attacked.target = target
              /\ attacked.left > 0
        /\ (pass = "attack" /\ Rolls) => cur_sk.timing = "after_attack"
        /\ (pass = "attack" /\ pc = "skill" /\ skIdx <= Len(all_skills(cur_u))
              /\ cur_sk.timing = "start") =>
              /\ pc' = "skill" /\ skIdx' = skIdx + 1
              /\ UNCHANGED << units, triggers, activated, rng >>
        /\ (pass = "attack" /\ pc = "slot" /\ attacked' # attacked
              /\ attacked'.left = 0) =>
              /\ pc' = "slot" /\ idx' = idx + 1 /\ attacked'.unit = u_idx
              /\ UNCHANGED << triggers, activated >>
      ]_vars

\* the basic attack of a unit that has an after_attack skill has just left
\* its target at 0 soldiers, and the loop is at the next slot
C16_Witness ==
    /\ pc = "slot" /\ pass = "attack" /\ idx > 1
    /\ attacked # <<>> /\ attacked.left = 0
    /\ attacked.unit = order[idx - 1]
    /\ \E k \in 1 .. Len(all_skills(units[attacked.unit])) :
          /\ all_skills(units[attacked.unit])[k].timing = "after_attack"
          /\ RLess(<<0, 1>>, all_skills(units[attacked.unit])[k].proc)

\* an after_attack skill is applied after an attack the target survived
C16_AppliedAfterAttack ==
    /\ pc = "effect" /\ pass = "attack" /\ attacked # <<>>
    /\ attacked.unit = u_idx /\ attacked.left > 0
    /\ cur_sk.timing = "after_attack"

\* -------------------------------------------------------------------
\* the units of a sequence of indices
Range(f) == { f[p] : p \in DOMAIN f }
spd(i) == units[i].stats.spd

\* C17 -- Turn order: the order of a turn is made once, at the start of the
\* turn, from exactly the units alive then, each of them once, by descending
\* spd (the position among equal spd is left to the random key); it is not
\* changed during the turn.  Both passes go through it from the first
\* position to the last, one position at a time, so a unit of strictly higher
\* spd has its slot before any unit of lower spd and no unit has two slots in
\* a pass.  The attack pass starts only when the start pass has gone through
\* the whole order: no basic attack is made during the start pass.
C17_TurnOrder ==
    [][ /\ (pc = "check" /\ pc' = "slot") =>
              /\ Range(order') = { i \in 1 .. Len(units) : is_alive(units[i]) }
              /\ pass' = "start" /\ idx' = 1
        /\ InTurn =>
              /\ \A p, q \in 1 .. Len(order) :
                    /\ p # q => order[p] # order[q]
                    /\ p < q => spd(order[p]) >= spd(order[q])
              /\ pass = "start" => attacked = <<>> /\ struck = {}
        /\ (InTurn /\ pc' \in {"slot", "skill", "effect", "heal", "tick"}) =>
              /\ order' = order
              /\ pass' = pass => idx' \in {idx, idx + 1}
              /\ pass' # pass =>
                    /\ pass = "start" /\ pass' = "attack"
                    /\ idx = Len(order) + 1 /\ idx' = 1
              /\ attacked' # attacked =>
                    /\ pass = "attack" /\ attacked'.unit = order[idx]
      ]_vars

\* the attack pass of a turn is over: units of different spd have had their
\* slots, the faster first, and basic attacks were made
C17_Witness ==
    /\ pc = "slot" /\ pass = "attack" /\ idx = Len(order) + 1
    /\ Len(order) >= 2
    /\ spd(order[1]) > spd(order[Len(order)])
    /\ attacked # <<>>

\* among equal spd the later unit of all_units can come first
C17_TieBroken ==
    /\ InTurn /\ Len(order) >= 2
    /\ spd(order[1]) = spd(order[2]) /\ order[1] > order[2]

\* -------------------------------------------------------------------
\* the effect _apply_effects is at has no branch that does anything
Unrecognized ==
    /\ pc = "effect" /\ effIdx <= Len(cur_sk.effects)
    /\ \/ eff_type \notin {"physical_damage", "strategy_damage", "heal", "status"}
       \/ eff_type = "status" /\ Get(cur_eff, "name", "") # "confusion"

\* C18 -- Unrecognized effects are no-ops: an effect whose type is none of
\* physical_damage, strategy_damage, heal and status, or a status effect whose
\* name is not "confusion", changes no unit (soldiers and statuses stay as
\* they are), heals nobody, records nothing and draws no random number;
\* _apply_effects goes on with the next effect of the same skill.
C18_UnrecognizedNoOp ==
    [][ Unrecognized =>
          /\ pc' = "effect" /\ effIdx' = effIdx + 1
          /\ UNCHANGED << units, triggers, activated, rng, healed, applied,
                          skIdx, idx, pass, target, order, turn >>
      ]_vars

\* _apply_effects has passed an effect of unknown type and a status effect
\* with another name, and is at the damage effect declared after them
C18_Witness ==
    /\ pc = "effect" /\ effIdx = 3 /\ Len(cur_sk.effects) = 3
    /\ Get(cur_sk.effects[1], "type", "") = "buff"
    /\ Get(cur_sk.effects[2], "type", "") = "status"
    /\ Get(cur_sk.effects[2], "name", "") = "poison"
    /\ eff_type = "physical_damage"
    /\ "poison" \notin DOMAIN units[target].statuses

\* the damage effect declared after the unrecognized ones has been applied
C18_LaterEffectApplied ==
    /\ pc = "effect" /\ effIdx = 4 /\ Len(cur_sk.effects) = 3
    /\ Get(cur_sk.effects[1], "type", "") = "buff"
    /\ units[target].soldiers < Fresh[target].soldiers

\* -------------------------------------------------------------------
\* the heal effect at hand has made its selection and healed nobody yet
Selected == pc = "heal" /\ healed = <<>>
\* sel is a right answer of "up to count living units of team, lowest first"
LowestOf(sel, team, count) ==
    LET living == { i \in team : is_alive(units[i]) }
    IN  /\ Len(sel) = Max(0, Min(count, Cardinality(living)))
        /\ Range(sel) \subseteq living
        /\ \A p, q \in 1 .. Len(sel) : p # q => sel[p] # sel[q]
        /\ \A h \in Range(sel) : \A o \in living \ Range(sel) :
              units[h].soldiers <= units[o].soldiers

\* C19 as claimed -- Heal target selection: a heal effect with target
\* "ally_lowest" selects exactly min(count, number of living allies) units
\* (none when count <= 0), all of them living members of the caster's own
\* team, each once, none with more soldiers than a living ally left out; with
\* any other target selector the caster alone is selected.
C19_HealTargets ==
    Selected =>
        IF Get(cur_eff, "target", "") = "ally_lowest"
        THEN LowestOf(healTargets, Team(SideOf(u_idx)), Get(cur_eff, "count", 1))
        ELSE healTargets = << u_idx >>

\* C19, what the code does -- the same selection, made in the team that was
\* passed as team_self (the caster's own team unless the caster is equal to a
\* unit of team A); and _pick_allies_lowest is right for every team and every
\* count, negative and zero included.
C19_SelectionInTeamSelf ==
    /\ Selected =>
          IF Get(cur_eff, "target", "") = "ally_lowest"
          THEN LowestOf(healTargets, team_self, Get(cur_eff, "count", 1))
          ELSE healTargets = << u_idx >>
    /\ InBattle =>
          \A side \in {"A", "B"} : \A count \in -1 .. (Len(units) + 1) :
              LowestOf(_pick_allies_lowest(Team(side), count), Team(side), count)

\* a caster of team B has selected a unit of team A for its heal
C19_HealsTheEnemy ==
    /\ Selected /\ Get(cur_eff, "target", "") = "ally_lowest"
    /\ SideOf(u_idx) = "B"
    /\ \E p \in 1 .. Len(healTargets) : healTargets[p] \in team_a

\* -------------------------------------------------------------------
\* C20 -- Targets are always enemies: in every state of every battle, mirror
\* matches included, the target of the unit whose slot it is belongs to the
\* opposing team (so it is neither a unit of the acting unit's team nor the
\* unit itself), every basic attack was made on a unit of the team opposing
\* the attacker, and the units selected by a heal with target "ally_lowest"
\* belong to the acting unit's own team.
C20_TargetsAreEnemies ==
    /\ AtSkills => (target \in Opposing(u_idx) /\ target # u_idx)
    /\ attacked # <<>> =>
          (attacked.target \in Opposing(attacked.unit)
              /\ attacked.target # attacked.unit)
    /\ (pc = "heal" /\ Get(cur_eff, "target", "") = "ally_lowest") =>
          Range(healTargets) \subseteq Team(SideOf(u_idx))

\* the acting unit is told apart from every unit of the other team
Distinguished(i) ==
    \A j \in 1 .. Len(units) : SideOf(j) # SideOf(i) => units[j] # units[i]

\* C20, what the code does -- when the unit whose slot it is differs in some
\* field from every unit of the other team, the target it picks is a living
\* unit of the opposing team, and its heals are selected in its own team.
C20_EnemiesWhenDistinguished ==
    [][ /\ (pc = "slot" /\ pc' = "skill" /\ Distinguished(u_idx)) =>
              /\ target' \in Opposing(u_idx)
              /\ is_alive(units[target'])
        /\ (pc = "slot" /\ attacked' # attacked /\ Distinguished(u_idx)) =>
              /\ attacked'.target \in Opposing(u_idx)
              /\ is_alive(units[attacked'.target])
        /\ (pc = "skill" /\ pc' = "effect" /\ Distinguished(u_idx)) =>
              team_self' = Team(SideOf(u_idx))
      ]_vars

\* a unit has made its basic attack on itself
C20_AttackedItself ==
    attacked # <<>> /\ attacked.target = attacked.unit

\* -------------------------------------------------------------------
\* the steps of one call of run_battle (not the making of new teams)
Battling == pc \in {"check", "slot", "skill", "effect", "heal", "tick"}
Dead(i) == units[i].soldiers = 0

\* C21 -- Death is permanent and silences the unit: during run_battle a unit
\* with 0 soldiers keeps 0 soldiers in every later state (no heal or other
\* effect raises them), makes no basic attack, has no skill rolled or
\* recorded, is not picked as the target of a slot, and its slots are passed
\* over (so a unit that died in the start pass is skipped in the attack pass
\* of the same turn).
C21_DeathIsPermanent ==
    [][ Battling => \A i \in 1 .. Len(units) : Dead(i) =>
          /\ units'[i].soldiers = 0
          /\ (attacked' # attacked /\ attacked' # <<>>) =>
                (attacked'.unit # i /\ attacked'.target # i)
          /\ Rolls => u_idx # i
          /\ (pc = "slot" /\ pc' = "skill") => (u_idx # i /\ target' # i)
          /\ (pc = "slot" /\ idx <= Len(order) /\ u_idx = i) =>
                (pc' = "slot" /\ idx' = idx + 1 /\ units' = units)
      ]_vars

\* C21, what the code does -- a dead unit is never picked as the target of a
\* slot, never starts a slot of its own (no pick, no basic attack: its slots
\* are passed over, in the attack pass as in the start pass), and only the
\* unit whose slot it is can have its skills rolled or its soldiers raised
\* from 0: that is, a unit that has brought itself to 0 as its own target.
C21_DeadUnlessSelfTargeted ==
    [][ Battling => \A i \in 1 .. Len(units) : Dead(i) =>
          /\ (attacked' # attacked /\ attacked' # <<>>) =>
                (attacked'.unit # i /\ attacked'.target # i)
          /\ (pc = "slot" /\ pc' = "skill") => (u_idx # i /\ target' # i)
          /\ (pc = "slot" /\ idx <= Len(order) /\ u_idx = i) =>
                (pc' = "slot" /\ idx' = idx + 1 /\ units' = units)
          /\ (units'[i].soldiers # 0 \/ (Rolls /\ u_idx = i)) =>
                (AtSkills /\ u_idx = i /\ target = i)
      ]_vars

\* a unit at 0 soldiers is being healed by its own skill
C21_RaisedFromZero ==
    /\ pc = "heal" /\ healTargets # <<>> /\ Head(healTargets) = u_idx
    /\ Dead(u_idx) /\ target = u_idx

\* a unit that died in the start pass has been passed over in the attack pass
\* of the same turn
C21_SkippedAfterDeath ==
    /\ pc = "slot" /\ pass = "attack" /\ idx > 1
    /\ Dead(order[idx - 1]) /\ SideOf(order[idx - 1]) \in hurt
    /\ attacked = <<>>

====
